---- MODULE Spec2Model ----
(***************************************************************************)
(* Word-count MapReduce (MapReduce/MapReduce/main.cpp).                    *)
(*                                                                         *)
(* The coordinator (main) reads the hardware concurrency, spawns one       *)
(* map_worker thread per index range of input_data, joins them all,        *)
(* reduces intermediate_result into final_result and prints it.  Each      *)
(* worker tokenizes its records with map_function and appends every pair   *)
(* to intermediate_result while holding reduceMutex.                       *)
(*                                                                         *)
(* Strings are sequences of one-character strings.  The characters are     *)
(* ASCII, so ispunct/tolower are defined on them.  Counts and indices stay *)
(* far below 2^31, so the int/unsigned long conversions of main are exact. *)
(***************************************************************************)
EXTENDS Integers, Sequences, FiniteSets, TLC

\* ------------------------------------------------------------------ bounds
MaxR == 3
MaxT == 3
MaxPartR == 12
MaxPartT == 6
MaxLiveR == 2
MaxLiveT == 2
MaxLen == 4

\* records in the vector when map_worker is called with arbitrary bounds
MaxCallR == 2

\* length of the lists handed to the reducer on its own
MaxListLen == 3

\* ------------------------------------------------------- characters, words
Alphabet == {"a", "b", "A", "B", ".", "-", " "}

\* ASCII codes: std::string compares by character value
CharCode == [c \in Alphabet |->
               CASE c = " " -> 32 [] c = "-" -> 45 [] c = "." -> 46
                 [] c = "A" -> 65 [] c = "B" -> 66
                 [] c = "a" -> 97 [] c = "b" -> 98]

isspace(c) == c = " "

ispunct(c) == c \in {".", "-"}

tolower(c) == CASE c = "A" -> "a" [] c = "B" -> "b" [] OTHER -> c

\* operator< of std::string, the key order of std::map: the first position
\* where the strings differ decides, a proper prefix is less
StringLess(x, y) ==
    LET less[n \in 1..(Len(x) + 1)] ==
            IF n > Len(y) THEN FALSE
            ELSE IF n > Len(x) THEN TRUE
            ELSE IF CharCode[x[n]] # CharCode[y[n]]
                 THEN CharCode[x[n]] < CharCode[y[n]]
                 ELSE less[n + 1]
    IN less[1]

\* bug: the map is ordered by std::greater
FirstKeyDescending(S) == CHOOSE k \in S : \A o \in S \ {k} : StringLess(o, k)

\* first key of a non-empty key set in std::map iteration order
FirstKey(S) == CHOOSE k \in S : \A o \in S \ {k} : StringLess(k, o)

\* ---------------------------------------------------------- map_function
\* iss >> word skips leading whitespace: the first position >= p that holds
\* no whitespace, Len(s) + 1 at the end of the stream
SkipSpace(s, p) ==
    LET skip[q \in p..(Len(s) + 1)] ==
            IF q <= Len(s) /\ isspace(s[q]) THEN skip[q + 1] ELSE q
    IN skip[p]

\* iss >> word then reads up to the next whitespace: the position after the
\* token that begins at p
ReadWord(s, p) ==
    LET read[q \in p..(Len(s) + 1)] ==
            IF q <= Len(s) /\ ~isspace(s[q]) THEN read[q + 1] ELSE q
    IN read[p]

\* word.erase(std::remove_if(..., ispunct), word.end()): the characters that
\* are no punctuation, in order
RemovePunct(word) ==
    LET kept[n \in 0..Len(word)] ==
            IF n = 0 THEN <<>>
            ELSE IF ispunct(word[n]) THEN kept[n - 1]
                 ELSE Append(kept[n - 1], word[n])
    IN kept[Len(word)]

\* bug: the std::transform call is missing
TransformNothing(word) == word

\* std::transform(..., tolower)
TransformLower(word) == [n \in 1..Len(word) |-> tolower(word[n])]

\* bug: the pair carries no count
EmitPairZero(word) ==
    [first |-> TransformLower(RemovePunct(word)), second |-> 1 - 1]

\* the body of the while loop: result.push_back(make_pair(word, 1))
EmitPair(word) == [first |-> TransformLower(RemovePunct(word)), second |-> 1]

\* while (iss >> word) from stream position p on: one pair per token
MapFrom(input, p) ==
    LET from[q \in p..(Len(input) + 1)] ==
            LET b == SkipSpace(input, q)
            IN IF b > Len(input) THEN <<>>
               ELSE <<EmitPair(SubSeq(input, b, ReadWord(input, b) - 1))>>
                        \o from[ReadWord(input, b)]
    IN from[p]

map_function(input) == MapFrom(input, 1)

\* ------------------------------------------------------- reduce_function
\* std::accumulate(first, last, init): init + v1 + ... + vn, left to right
Accumulate(values, init) ==
    LET acc[n \in 0..Len(values)] ==
            IF n = 0 THEN init ELSE acc[n - 1] + values[n]
    IN acc[Len(values)]

\* bug: the reducer counts the elements instead of adding them
ReduceCount(values) == Len(values)

reduce_function(values) == Accumulate(values, 0)

\* ----------------------------------------------------- partition of main
\* bug: the per-thread size rounded up instead of down
RangeStartCeil(i, size, nthreads) ==
    i * ((size + nthreads - 1) \div nthreads)

\* start index of thread i (line 166)
RangeStart(i, size, nthreads) == i * (size \div nthreads)

\* bug: the remainder is spread over the ends, the starts are not adapted
RangeEndBalanced(i, size, nthreads) == ((i + 1) * size) \div nthreads

\* bug: the last thread does not take the remainder
RangeEndNoRemainder(i, size, nthreads) == (i + 1) * (size \div nthreads)

\* end index of thread i (line 167)
RangeEnd(i, size, nthreads) ==
    IF i = nthreads - 1 THEN size ELSE (i + 1) * (size \div nthreads)

\* ------------------------------------------------------------------ inputs
RecordPool ==
    { <<>>,
      <<".">>,
      <<"A", " ", "a", ".">>,
      <<"-", " ", "B">> }

RECURSIVE SeqsUpTo(_, _)
SeqsUpTo(S, n) ==
    IF n = 0 THEN {<<>>}
    ELSE LET prev == SeqsUpTo(S, n - 1)
         IN prev \cup {Append(q, x) : q \in {r \in prev : Len(r) = n - 1}, x \in S}

Corpora == SeqsUpTo(RecordPool, MaxR)

\* ------------------------------------------------------------------- state
VARIABLES
    input_data,           \* the records (1-based here, 0-based in the code)
    num_threads,          \* std::thread::hardware_concurrency()
    map_threads,          \* ids of the threads created so far
    intermediate_result,  \* word -> list of counts
    final_result,         \* word -> total
    report,               \* the lines printed so far
    reduceMutex,          \* holder of the mutex, or NoThread
    exit_status,          \* return value of main, or Running
    cpc,                  \* position of main
    ci,                   \* loop index of main in the spawn and join loops
    wpc,                  \* position of each worker
    wstart, wend,         \* arguments of each worker
    wi,                   \* record index of each worker
    mapped_result,        \* map_function result each worker iterates
    wk,                   \* position of each worker in mapped_result
    appended,             \* history: the words each worker has pushed, in order
    acquired              \* history: how often each worker has locked the mutex

vars == <<input_data, num_threads, map_threads, intermediate_result,
          final_result, report, reduceMutex, exit_status, cpc, ci,
          wpc, wstart, wend, wi, mapped_result, wk, appended, acquired>>

NoThread == -1
Running == -1

Threads == 0..(num_threads - 1)

EmptyMap == [k \in {} |-> <<>>]

InitWith(data, nthreads) ==
    /\ input_data = data
    /\ num_threads = nthreads
    /\ map_threads = <<>>
    /\ intermediate_result = EmptyMap
    /\ final_result = EmptyMap
    /\ report = <<>>
    /\ reduceMutex = NoThread
    /\ exit_status = Running
    /\ cpc = "spawn"
    /\ ci = 0
    /\ wpc = [t \in 0..(nthreads - 1) |-> "unspawned"]
    /\ wstart = [t \in 0..(nthreads - 1) |-> 0]
    /\ wend = [t \in 0..(nthreads - 1) |-> 0]
    /\ wi = [t \in 0..(nthreads - 1) |-> 0]
    /\ mapped_result = [t \in 0..(nthreads - 1) |-> <<>>]
    /\ wk = [t \in 0..(nthreads - 1) |-> 1]
    /\ appended = [t \in 0..(nthreads - 1) |-> <<>>]
    /\ acquired = [t \in 0..(nthreads - 1) |-> 0]

Init == \E data \in Corpora, nthreads \in 0..MaxT : InitWith(data, nthreads)

\* -------------------------------------------------------------- map_worker
\* input_data[i] is std::vector::operator[], which checks nothing: an index
\* outside [0, size) is undefined behaviour, and what is read there is
\* whatever string the memory happens to hold
InBounds(i) == 0 <= i /\ i < Len(input_data)

ReadRecord(i) == IF InBounds(i) THEN {input_data[i + 1]} ELSE RecordPool

\* outer for loop, i < end: map_function(input_data[i]); a record without
\* tokens leaves the inner loop at once and the outer loop goes on to ++i
WorkerFetch(t) ==
    /\ wpc[t] = "loop"
    /\ wi[t] < wend[t]
    /\ \E rec \in ReadRecord(wi[t]) :
           mapped_result' = [mapped_result EXCEPT ![t] = map_function(rec)]
    /\ wk' = [wk EXCEPT ![t] = 1]
    /\ wi' = [wi EXCEPT ![t] = IF mapped_result'[t] = <<>> THEN @ + 1 ELSE @]
    /\ wpc' = [wpc EXCEPT ![t] = IF mapped_result'[t] = <<>> THEN "loop" ELSE "lock"]
    /\ UNCHANGED <<appended, acquired>>
    /\ UNCHANGED <<input_data, num_threads, map_threads, intermediate_result,
                   final_result, report, reduceMutex, exit_status, cpc, ci,
                   wstart, wend>>

\* outer for loop, i >= end: the thread function returns
WorkerExit(t) ==
    /\ wpc[t] = "loop"
    /\ wi[t] >= wend[t]
    /\ wpc' = [wpc EXCEPT ![t] = "done"]
    /\ UNCHANGED <<appended, acquired>>
    /\ UNCHANGED <<input_data, num_threads, map_threads, intermediate_result,
                   final_result, report, reduceMutex, exit_status, cpc, ci,
                   wstart, wend, wi, mapped_result, wk>>

\* bug: the lock is taken without waiting for the holder
MutexNeverBlocks(t) == TRUE

\* std::lock_guard constructor: blocks until the mutex is free
MutexFree(t) == reduceMutex = NoThread

\* bug: an unnamed lock_guard temporary, destroyed at once
AcquiredByTemporary(t) == NoThread

\* the guard object named lock owns the mutex until the end of the block
AcquiredBy(t) == t

WorkerLock(t) ==
    /\ wpc[t] = "lock"
    /\ MutexFree(t)
    /\ reduceMutex' = AcquiredBy(t)
    /\ wpc' = [wpc EXCEPT ![t] = "push"]
    /\ acquired' = [acquired EXCEPT ![t] = @ + 1]
    /\ UNCHANGED appended
    /\ UNCHANGED <<input_data, num_threads, map_threads, intermediate_result,
                   final_result, report, exit_status, cpc, ci,
                   wstart, wend, wi, mapped_result, wk>>

\* bug: the value is pushed twice
PushBackTwice(m, key, value) ==
    IF key \in DOMAIN m
    THEN [m EXCEPT ![key] = Append(Append(m[key], value), value)]
    ELSE (key :> <<value, value>>) @@ m

\* bug: the list is replaced instead of extended
PushBackOverwrite(m, key, value) == (key :> <<value>>) @@ m

\* intermediate_result[pair.first].push_back(pair.second)
PushBack(m, key, value) ==
    IF key \in DOMAIN m
    THEN [m EXCEPT ![key] = Append(m[key], value)]
    ELSE (key :> <<value>>) @@ m

\* Two threads inside the std::map at once is a data race (undefined
\* behaviour); one of the outcomes a build can produce is a lost update.
Racing(t) == \E u \in Threads \ {t} : wpc[u] = "push"

\* bug: the pairs of a record are taken last to first
CurrentPairReversed(t) ==
    mapped_result[t][Len(mapped_result[t]) - wk[t] + 1]

\* const auto& pair of the range-for over mapped_result
CurrentPair(t) == mapped_result[t][wk[t]]

WorkerPush(t) ==
    /\ wpc[t] = "push"
    /\ LET pair == CurrentPair(t)
           pushed == PushBack(intermediate_result, pair.first, pair.second)
       IN /\ IF Racing(t)
             THEN intermediate_result' \in {pushed, intermediate_result}
             ELSE intermediate_result' = pushed
          /\ appended' = [appended EXCEPT ![t] = Append(@, pair.first)]
    /\ wpc' = [wpc EXCEPT ![t] = "unlock"]
    /\ UNCHANGED acquired
    /\ UNCHANGED <<input_data, num_threads, map_threads,
                   final_result, report, reduceMutex, exit_status, cpc, ci,
                   wstart, wend, wi, mapped_result, wk>>

\* bug: a bare lock() that is never unlocked
MutexStillHeld(t) == t

\* std::lock_guard destructor, then the next pair or the next record
MutexAfterUnlock(t) == NoThread

WorkerUnlock(t) ==
    /\ wpc[t] = "unlock"
    /\ reduceMutex' = MutexAfterUnlock(t)
    /\ IF wk[t] < Len(mapped_result[t])
       THEN /\ wk' = [wk EXCEPT ![t] = wk[t] + 1]
            /\ wpc' = [wpc EXCEPT ![t] = "lock"]
            /\ wi' = wi
            /\ mapped_result' = mapped_result
       ELSE /\ wi' = [wi EXCEPT ![t] = wi[t] + 1]
            /\ wpc' = [wpc EXCEPT ![t] = "loop"]
            /\ wk' = [wk EXCEPT ![t] = 1]
            /\ mapped_result' = [mapped_result EXCEPT ![t] = <<>>]
    /\ UNCHANGED <<appended, acquired>>
    /\ UNCHANGED <<input_data, num_threads, map_threads, intermediate_result,
                   final_result, report, exit_status, cpc, ci,
                   wstart, wend>>

\* the exit status of a process killed by SIGSEGV, as a shell reports it
KilledBySignal == 128 + 11

\* input_data[i] with i outside the vector is undefined behaviour; besides
\* reading some bytes as a string (ReadRecord), the build can fault on the
\* access, which ends the whole process.
WorkerCrash(t) ==
    /\ wpc[t] = "loop"
    /\ wi[t] < wend[t]
    /\ ~InBounds(wi[t])
    /\ wpc' = [wpc EXCEPT ![t] = "crashed"]
    /\ cpc' = "aborted"
    /\ exit_status' = KilledBySignal
    /\ UNCHANGED <<appended, acquired>>
    /\ UNCHANGED <<input_data, num_threads, map_threads, intermediate_result,
                   final_result, report, reduceMutex, ci,
                   wstart, wend, wi, mapped_result, wk>>

Worker(t) ==
    \/ WorkerFetch(t)
    \/ WorkerExit(t)
    \/ WorkerLock(t)
    \/ WorkerPush(t)
    \/ WorkerUnlock(t)

\* -------------------------------------------------------------------- main
\* one iteration of the spawn loop: compute the range, create the thread
Spawn ==
    /\ cpc = "spawn"
    /\ ci < num_threads
    /\ LET start == RangeStart(ci, Len(input_data), num_threads)
           end == RangeEnd(ci, Len(input_data), num_threads)
       IN /\ wstart' = [wstart EXCEPT ![ci] = start]
          /\ wend' = [wend EXCEPT ![ci] = end]
          /\ wi' = [wi EXCEPT ![ci] = start]
    /\ wpc' = [wpc EXCEPT ![ci] = "loop"]
    /\ map_threads' = Append(map_threads, ci)
    /\ ci' = ci + 1
    /\ UNCHANGED <<appended, acquired>>
    /\ UNCHANGED <<input_data, num_threads, intermediate_result,
                   final_result, report, reduceMutex, exit_status, cpc,
                   mapped_result, wk>>

SpawnExit ==
    /\ cpc = "spawn"
    /\ ci >= num_threads
    /\ cpc' = "join"
    /\ ci' = 0
    /\ UNCHANGED <<appended, acquired>>
    /\ UNCHANGED <<input_data, num_threads, map_threads, intermediate_result,
                   final_result, report, reduceMutex, exit_status,
                   wpc, wstart, wend, wi, mapped_result, wk>>

\* bug: the threads are detached, main does not wait for them
JoinableAtOnce(t) == TRUE

\* thread.join() returns once the thread has finished
Joinable(t) == wpc[t] = "done"

Join ==
    /\ cpc = "join"
    /\ ci < Len(map_threads)
    /\ Joinable(map_threads[ci + 1])
    /\ ci' = ci + 1
    /\ UNCHANGED <<appended, acquired>>
    /\ UNCHANGED <<input_data, num_threads, map_threads, intermediate_result,
                   final_result, report, reduceMutex, exit_status, cpc,
                   wpc, wstart, wend, wi, mapped_result, wk>>

JoinExit ==
    /\ cpc = "join"
    /\ ci >= Len(map_threads)
    /\ cpc' = "reduce"
    /\ UNCHANGED <<appended, acquired>>
    /\ UNCHANGED <<input_data, num_threads, map_threads, intermediate_result,
                   final_result, report, reduceMutex, exit_status, ci,
                   wpc, wstart, wend, wi, mapped_result, wk>>

\* one iteration of the reduce loop, in key order of intermediate_result
Reduce ==
    /\ cpc = "reduce"
    /\ LET rest == DOMAIN intermediate_result \ DOMAIN final_result
       IN IF rest # {}
          THEN LET key == FirstKey(rest)
               IN /\ final_result' =
                        (key :> reduce_function(intermediate_result[key]))
                            @@ final_result
                  /\ cpc' = cpc
          ELSE /\ cpc' = "report"
               /\ final_result' = final_result
    /\ UNCHANGED <<appended, acquired>>
    /\ UNCHANGED <<input_data, num_threads, map_threads, intermediate_result,
                   report, reduceMutex, exit_status, ci,
                   wpc, wstart, wend, wi, mapped_result, wk>>

\* bug: a failure status on the normal path
ReturnFailure == 0 + 1

\* return 0
ReturnValue == 0

\* one iteration of the print loop, in key order of final_result
ReportedKeys == {report[n].word : n \in 1..Len(report)}

Report ==
    /\ cpc = "report"
    /\ LET rest == DOMAIN final_result \ ReportedKeys
       IN IF rest # {}
          THEN LET key == FirstKey(rest)
               IN /\ report' = Append(report,
                                      [word |-> key, count |-> final_result[key]])
                  /\ UNCHANGED <<cpc, exit_status>>
          ELSE /\ cpc' = "done"
               /\ exit_status' = ReturnValue
               /\ report' = report
    /\ UNCHANGED <<appended, acquired>>
    /\ UNCHANGED <<input_data, num_threads, map_threads, intermediate_result,
                   final_result, reduceMutex, ci,
                   wpc, wstart, wend, wi, mapped_result, wk>>

Coordinator ==
    \/ Spawn
    \/ SpawnExit
    \/ Join
    \/ JoinExit
    \/ Reduce
    \/ Report

Next ==
    \/ Coordinator
    \/ \E t \in Threads : Worker(t)

Spec == Init /\ [][Next]_vars

\* Every runnable thread is eventually scheduled; std::mutex gives no more.
WorkerStep(t) == t \in Threads /\ Worker(t)

Fairness ==
    /\ WF_vars(Coordinator)
    /\ \A t \in 0..(MaxLiveT - 1) : WF_vars(WorkerStep(t))

LiveInit ==
    \E data \in SeqsUpTo(RecordPool, MaxLiveR), nthreads \in 0..MaxLiveT :
        InitWith(data, nthreads)

FairSpec == LiveInit /\ [][Next]_vars /\ Fairness

\* The spawn loop alone, over a wide range of record and thread counts: the
\* behaviours in which no worker is scheduled before the loop has ended.
BlankCorpora == {[n \in 1..size |-> <<>>] : size \in 0..MaxPartR}

PartInit ==
    \E data \in BlankCorpora, nthreads \in 0..MaxPartT : InitWith(data, nthreads)

PartNext ==
    \/ Spawn
    \/ SpawnExit

PartSpec == PartInit /\ [][PartNext]_vars

\* One thread over one record, the record any string of up to MaxLen
\* characters: map_function on every input.
MapInit == \E s \in SeqsUpTo(Alphabet, MaxLen) : InitWith(<<s>>, 1)

MapSpec == MapInit /\ [][Next]_vars

\* map_worker called with arbitrary bounds: one thread running
\* map_worker(input_data, intermediate_result, start, end) and main waiting
\* in the join loop for it.
CallInit ==
    \E data \in SeqsUpTo(RecordPool, MaxCallR) :
    \E start \in (0 - 1)..(Len(data) + 1), end \in (0 - 1)..(Len(data) + 1) :
        /\ input_data = data
        /\ num_threads = 1
        /\ map_threads = <<0>>
        /\ intermediate_result = EmptyMap
        /\ final_result = EmptyMap
        /\ report = <<>>
        /\ reduceMutex = NoThread
        /\ exit_status = Running
        /\ cpc = "join"
        /\ ci = 0
        /\ wpc = [t \in {0} |-> "loop"]
        /\ wstart = [t \in {0} |-> start]
        /\ wend = [t \in {0} |-> end]
        /\ wi = [t \in {0} |-> start]
        /\ mapped_result = [t \in {0} |-> <<>>]
        /\ wk = [t \in {0} |-> 1]
        /\ appended = [t \in {0} |-> <<>>]
        /\ acquired = [t \in {0} |-> 0]

CallNext ==
    \/ Join
    \/ JoinExit
    \/ Reduce
    \/ Report
    \/ \E t \in Threads : Worker(t)
    \/ \E t \in Threads : WorkerCrash(t)

CallSpec == CallInit /\ [][CallNext]_vars

\* The reduce and print loops on their own, over maps that hold arbitrary
\* integer lists: reduce_function is defined for any std::vector<int>.
RedKeys == {<<"a">>, <<"b">>}

RedValues == {0 - 1, 1, 2}

RedMaps ==
    UNION {[keys -> SeqsUpTo(RedValues, MaxListLen)] : keys \in SUBSET RedKeys}

RedInit ==
    \E m \in RedMaps :
        /\ input_data = <<>>
        /\ num_threads = 0
        /\ map_threads = <<>>
        /\ intermediate_result = m
        /\ final_result = EmptyMap
        /\ report = <<>>
        /\ reduceMutex = NoThread
        /\ exit_status = Running
        /\ cpc = "reduce"
        /\ ci = 0
        /\ wpc = <<>>
        /\ wstart = <<>>
        /\ wend = <<>>
        /\ wi = <<>>
        /\ mapped_result = <<>>
        /\ wk = <<>>
        /\ appended = <<>>
        /\ acquired = <<>>

RedNext ==
    \/ Reduce
    \/ Report

RedSpec == RedInit /\ [][RedNext]_vars

\* ===================================================================
\* Reference definitions for the properties: the corpus read directly,
\* without the worker threads.
\* ===================================================================

\* positions where a whitespace-delimited token of s begins
TokenStarts(s) ==
    {p \in 1..Len(s) : ~isspace(s[p]) /\ (p = 1 \/ isspace(s[p - 1]))}

\* last position of the token that begins at p
TokenEnd(s, p) ==
    CHOOSE q \in p..Len(s) :
        /\ \A j \in p..q : ~isspace(s[j])
        /\ q = Len(s) \/ isspace(s[q + 1])

NotPunct(c) == ~ispunct(c)

\* the token at p, punctuation stripped and lowercased
NormalizedToken(s, p) ==
    LET kept == SelectSeq(SubSeq(s, p, TokenEnd(s, p)), NotPunct)
    IN [n \in 1..Len(kept) |-> tolower(kept[n])]

OccurrencesIn(s, w) ==
    Cardinality({p \in TokenStarts(s) : NormalizedToken(s, p) = w})

RECURSIVE OccurrencesUpTo(_, _)
OccurrencesUpTo(w, n) ==
    IF n = 0 THEN 0
    ELSE OccurrencesUpTo(w, n - 1) + OccurrencesIn(input_data[n], w)

\* occurrences of w over all records
Occurrences(w) == OccurrencesUpTo(w, Len(input_data))

CorpusWords ==
    UNION {{NormalizedToken(input_data[n], p) : p \in TokenStarts(input_data[n])}
              : n \in 1..Len(input_data)}

RECURSIVE TokensUpTo(_)
TokensUpTo(n) ==
    IF n = 0 THEN 0
    ELSE TokensUpTo(n - 1) + Len(map_function(input_data[n]))

RECURSIVE EntriesOf(_, _)
EntriesOf(m, keys) ==
    IF keys = {} THEN 0
    ELSE LET k == CHOOSE x \in keys : TRUE
         IN Len(m[k]) + EntriesOf(m, keys \ {k})

AllWorkersDone == \A t \in Threads : wpc[t] = "done"

InCritical(t) == wpc[t] \in {"push", "unlock"}

\* ------------------------------------------------------------------- C1
\* C1: with at least one thread, at Done final_result maps every word of the
\* corpus to its number of occurrences (lowercased, punctuation stripped)
\* over all records, and has no other key.
C1_SumInvariant ==
    (cpc = "done" /\ num_threads >= 1) =>
        /\ DOMAIN final_result = CorpusWords
        /\ \A w \in CorpusWords : final_result[w] = Occurrences(w)

\* a finished run of two or more threads in which a word of several records
\* was counted three times
C1_Witness ==
    /\ cpc = "done"
    /\ num_threads >= 2
    /\ Len(input_data) > num_threads
    /\ \E w \in DOMAIN final_result : final_result[w] >= 3

\* ------------------------------------------------------------------- C2
\* The run in which the threads execute one after the other, thread 0 first.
RECURSIVE RangePairs(_, _)
RangePairs(lo, hi) ==
    IF lo >= hi THEN <<>>
    ELSE map_function(input_data[lo + 1]) \o RangePairs(lo + 1, hi)

RECURSIVE SerialPairsFrom(_)
SerialPairsFrom(t) ==
    IF t >= num_threads THEN <<>>
    ELSE RangePairs(RangeStart(t, Len(input_data), num_threads),
                    RangeEnd(t, Len(input_data), num_threads))
             \o SerialPairsFrom(t + 1)

RECURSIVE FoldPush(_, _)
FoldPush(pairs, m) ==
    IF pairs = <<>> THEN m
    ELSE FoldPush(Tail(pairs), PushBack(m, Head(pairs).first, Head(pairs).second))

SerialFinal ==
    LET im == FoldPush(SerialPairsFrom(0), EmptyMap)
    IN [w \in DOMAIN im |-> reduce_function(im[w])]

\* C2: for a given corpus and thread count, whatever the interleaving of the
\* threads, final_result at Done is the one of the serial schedule.
C2_OrderIndependence ==
    (cpc = "done" /\ num_threads >= 1) => final_result = SerialFinal

\* a schedule that is not serial: a thread sits between its first and second
\* append while a later thread is inside the critical section
C2_Witness ==
    \E t \in Threads, u \in Threads :
        /\ t < u
        /\ wpc[t] = "lock" /\ wk[t] = 2
        /\ wpc[u] = "unlock"

\* ------------------------------------------------------------------- C3
C3_Exclusive ==
    /\ Cardinality({t \in Threads : InCritical(t)}) <= 1
    /\ \A t \in Threads : InCritical(t) => reduceMutex = t
    /\ cpc \in {"reduce", "report", "done"} =>
           \A t \in Threads : ~InCritical(t)

C3_WriterHoldsMutex ==
    intermediate_result' # intermediate_result =>
        \E t \in Threads :
            /\ reduceMutex = t
            /\ wpc[t] = "push" /\ wpc'[t] = "unlock"
            /\ \A u \in Threads \ {t} : ~InCritical(u)
            /\ cpc \notin {"reduce", "report", "done"}

\* C3: at most one thread is inside the critical section and it holds
\* reduceMutex; every change of intermediate_result is made by the thread
\* that holds the mutex, alone, and never while main reads the map.
C3_MutualExclusion == []C3_Exclusive /\ [][C3_WriterHoldsMutex]_vars

\* contention: one thread is about to append while another waits for the mutex
C3_Witness ==
    \E t \in Threads, u \in Threads :
        /\ t # u
        /\ wpc[t] = "push" /\ reduceMutex = t
        /\ wpc[u] = "lock"

\* ------------------------------------------------------------------- C4
C4_AfterBarrier ==
    (final_result # EmptyMap \/ cpc \in {"reduce", "report", "done"}) =>
        /\ Len(map_threads) = num_threads
        /\ AllWorkersDone

C4_Frozen ==
    cpc \in {"reduce", "report", "done"} =>
        intermediate_result' = intermediate_result

\* C4: main reduces or reports, or final_result is non-empty, only when every
\* spawned thread has finished, and from then on intermediate_result never
\* changes.
C4_ReduceAfterJoinAll == []C4_AfterBarrier /\ [][C4_Frozen]_vars

\* main is in the middle of the reduce loop of a run with several threads
C4_Witness ==
    /\ cpc = "reduce"
    /\ num_threads >= 2
    /\ final_result # EmptyMap
    /\ DOMAIN final_result # DOMAIN intermediate_result

\* ------------------------------------------------------------------- C5
\* C5: with T >= 1 the spawn loop creates exactly T threads, each with a range
\* 0 <= start <= end <= R, and every record index of [0, R) lies in exactly
\* one range.
C5_PartitionCoverage ==
    /\ \A n \in 1..Len(map_threads) :
           LET t == map_threads[n]
           IN /\ 0 <= wstart[t]
              /\ wstart[t] <= wend[t]
              /\ wend[t] <= Len(input_data)
    /\ (cpc # "spawn" /\ num_threads >= 1) =>
           /\ Len(map_threads) = num_threads
           /\ \A r \in 0..(Len(input_data) - 1) :
                  Cardinality({t \in Threads : wstart[t] <= r /\ r < wend[t]}) = 1

\* every thread is spawned and there are more threads than records, so some
\* thread has an empty range
C5_Witness ==
    /\ cpc = "join"
    /\ Len(input_data) >= 1
    /\ num_threads > Len(input_data)
    /\ \E t \in Threads : wstart[t] = wend[t]

\* ------------------------------------------------------------------- C6
\* C6: with T >= 1, once every thread has finished, the list of each word has
\* one entry per occurrence of the word in the corpus, the keys are the words
\* of the corpus, and the number of entries is the number of pairs
\* map_function emits over all records.
C6_OneEntryPerOccurrence ==
    (num_threads >= 1 /\ Len(map_threads) = num_threads /\ AllWorkersDone) =>
        /\ DOMAIN intermediate_result = CorpusWords
        /\ \A w \in CorpusWords : Len(intermediate_result[w]) = Occurrences(w)
        /\ EntriesOf(intermediate_result, DOMAIN intermediate_result)
               = TokensUpTo(Len(input_data))

\* all threads done, main still joining, a word appended by several threads
C6_Witness ==
    /\ num_threads >= 2
    /\ Len(map_threads) = num_threads
    /\ AllWorkersDone
    /\ cpc = "join"
    /\ \E w \in DOMAIN intermediate_result : Len(intermediate_result[w]) >= 3

\* ------------------------------------------------------------------- C7
C7_NoDeadlock == (num_threads >= 1 /\ cpc # "done") => ENABLED Next

C7_Finished ==
    /\ cpc = "done"
    /\ exit_status = ReturnValue
    /\ AllWorkersDone

\* C7: with T >= 1 and every thread scheduled fairly, the run is never stuck
\* before Done, every thread that waits for the mutex gets it, and the run
\* reaches Done with all threads finished and the report emitted.
C7_Terminates ==
    /\ []C7_NoDeadlock
    /\ \A t \in 0..(MaxLiveT - 1) :
           (t \in Threads /\ wpc[t] = "lock") ~> (reduceMutex = t)
    /\ (num_threads >= 1) ~> C7_Finished

\* a finished run of several threads that appended under the mutex
C7_Witness ==
    /\ cpc = "done"
    /\ exit_status = ReturnValue
    /\ num_threads >= 2
    /\ Cardinality(DOMAIN final_result) >= 2

\* ------------------------------------------------------------------- C8
\* C8: a run never ends at Done with a success status having used zero
\* threads.
C8_NoZeroWorkers ==
    (cpc = "done" /\ exit_status = 0) => num_threads >= 1

\* ------------------------------------------------------------------- C9
\* C9: map_function emits no pair with an empty word, and the empty string is
\* never a key of intermediate_result or final_result.
C9_NoEmptyWord ==
    /\ \A t \in Threads :
           \A n \in 1..Len(mapped_result[t]) : mapped_result[t][n].first # <<>>
    /\ <<>> \notin DOMAIN intermediate_result
    /\ <<>> \notin DOMAIN final_result

\* ------------------------------------------------------------------ C10
EmptyRun == Len(input_data) = 0 /\ num_threads >= 1

C10_NothingMapped ==
    EmptyRun =>
        /\ \A n \in 1..Len(map_threads) :
               wstart[map_threads[n]] = wend[map_threads[n]]
        /\ \A t \in Threads : wpc[t] \in {"unspawned", "loop", "done"}
        /\ reduceMutex = NoThread
        /\ intermediate_result = EmptyMap
        /\ final_result = EmptyMap
        /\ report = <<>>
        /\ exit_status \in {Running, 0}

C10_Done ==
    /\ cpc = "done"
    /\ exit_status = 0
    /\ final_result = EmptyMap
    /\ report = <<>>

\* C10: with no record and T >= 1 every thread gets an empty range, no thread
\* takes the mutex or appends, and the run reaches Done with an empty
\* final_result, an empty report and status 0.
C10_EmptyCorpus == []C10_NothingMapped /\ (EmptyRun ~> C10_Done)

\* a finished run over no record with several threads
C10_Witness ==
    /\ EmptyRun
    /\ num_threads >= 2
    /\ AllWorkersDone
    /\ cpc = "done"
    /\ exit_status = 0

\* ------------------------------------------------------------------ C11
\* lexicographic order of two words, by the first position where they differ
LexBefore(x, y) ==
    \/ Len(x) < Len(y) /\ SubSeq(y, 1, Len(x)) = x
    \/ \E n \in 1..Len(x) :
           /\ n <= Len(y)
           /\ SubSeq(x, 1, n - 1) = SubSeq(y, 1, n - 1)
           /\ CharCode[x[n]] < CharCode[y[n]]

\* C11: at Done the report has exactly one line per key of final_result, with
\* that key's total, and the words of the lines are strictly ascending in
\* lexicographic order.
C11_SortedReport ==
    cpc = "done" =>
        /\ Len(report) = Cardinality(DOMAIN final_result)
        /\ {report[n].word : n \in 1..Len(report)} = DOMAIN final_result
        /\ \A n \in 1..Len(report) :
               report[n].count = final_result[report[n].word]
        /\ \A n \in 1..Len(report), m \in 1..Len(report) :
               n < m => LexBefore(report[n].word, report[m].word)

\* a finished run of several threads whose report has three lines
C11_Witness ==
    /\ cpc = "done"
    /\ num_threads >= 2
    /\ Len(report) >= 3

\* ------------------------------------------------------------------ C12
\* the n-th token start of s, in stream order
NthStart(s, n) ==
    CHOOSE p \in TokenStarts(s) :
        Cardinality({q \in TokenStarts(s) : q < p}) = n - 1

\* the tokens of s in order, each stripped of punctuation and lowercased,
\* each paired with 1
ExpectedMap(s) ==
    [n \in 1..Cardinality(TokenStarts(s)) |->
        [first |-> NormalizedToken(s, NthStart(s, n)), second |-> 1]]

\* the step in which thread 0 calls map_function on its record
FetchStep ==
    /\ wpc[0] = "loop"
    /\ wi[0] < wend[0]
    /\ wpc'[0] = "lock" \/ wi'[0] = wi[0] + 1

C12_Step == FetchStep => mapped_result'[0] = ExpectedMap(input_data[wi[0] + 1])

C13_RangeSizes ==
    \A n \in 1..Len(map_threads) :
        LET t == map_threads[n]
            size == Len(input_data)
            share == size \div num_threads
        IN /\ wstart[t] = t * share
           /\ t < num_threads - 1 => wend[t] - wstart[t] = share
           /\ t = num_threads - 1 =>
                  /\ wend[t] = size
                  /\ wend[t] - wstart[t] = size - (num_threads - 1) * share
                  /\ wend[t] - wstart[t] >= share

\* all threads spawned, several records per thread and a remainder
C13_Witness ==
    /\ cpc = "join"
    /\ num_threads >= 2
    /\ Len(input_data) > 2 * num_threads
    /\ Len(input_data) % num_threads # 0
    /\ wend[num_threads - 1] - wstart[num_threads - 1] > wend[0] - wstart[0]

\* ------------------------------------------------------------------ C14
FewRecords ==
    /\ cpc = "join"
    /\ 1 <= Len(input_data)
    /\ Len(input_data) < num_threads

NonEmptyRange(t) == wstart[t] < wend[t]

\* C14 as claimed: with 1 <= R < T the non-empty ranges belong to the
\* lowest-numbered threads and every thread after them has an empty range.
C14_TrailingEmpty ==
    FewRecords =>
        /\ \A t \in Threads, u \in Threads :
               (t < u /\ NonEmptyRange(u)) => NonEmptyRange(t)
        /\ ~NonEmptyRange(num_threads - 1)

\* C14 amended: with 1 <= R < T the empty ranges are the leading ones: threads
\* 0 .. T-2 each get the empty range [0, 0) and the last thread gets [0, R).
C14_LeadingEmpty ==
    FewRecords =>
        /\ \A t \in Threads :
               t < num_threads - 1 => (wstart[t] = 0 /\ wend[t] = 0)
        /\ wstart[num_threads - 1] = 0
        /\ wend[num_threads - 1] = Len(input_data)

\* several records, at least two threads more than records
C14_Witness ==
    /\ FewRecords
    /\ Len(input_data) >= 2
    /\ num_threads >= Len(input_data) + 2
    /\ NonEmptyRange(num_threads - 1)

\* ------------------------------------------------------------------ C15
\* the mutex is owned exactly while the thread is between the lock_guard's
\* construction and its destruction, and each ownership covers one push_back
C15_Held ==
    \A t \in Threads :
        /\ reduceMutex = t <=> InCritical(t)
        /\ Len(appended[t]) =
               acquired[t] - (IF wpc[t] = "push" THEN 1 ELSE 0)

C15_Step ==
    \A t \in Threads :
        /\ acquired'[t] # acquired[t] =>
               /\ acquired'[t] = acquired[t] + 1
               /\ reduceMutex = NoThread
               /\ reduceMutex' = t
               /\ appended'[t] = appended[t]
        /\ appended'[t] # appended[t] =>
               /\ Len(appended'[t]) = Len(appended[t]) + 1
               /\ reduceMutex = t
               /\ reduceMutex' = t
               /\ acquired'[t] = acquired[t]
        /\ (wpc[t] = "unlock" /\ wpc'[t] # "unlock") => reduceMutex' = NoThread
        /\ mapped_result'[t] # mapped_result[t] =>
               (reduceMutex # t \/ wpc[t] = "unlock")

\* C15: a thread holds the mutex for exactly one append per acquisition and
\* releases it before its next acquisition; it never holds the mutex while
\* it runs the mapper or after it has finished, so the mutex is free for
\* another thread between any two of its appends.
C15_OneAppendPerHold == []C15_Held /\ [][C15_Step]_vars

\* between two appends of thread t, another thread holds the mutex
C15_Witness ==
    \E t \in Threads, u \in Threads :
        /\ t # u
        /\ wpc[t] = "lock"
        /\ wk[t] = 2
        /\ Len(appended[t]) = 1
        /\ reduceMutex = u
        /\ wpc[u] = "unlock"
        /\ acquired[u] = 1

\* ------------------------------------------------------------------ C16
\* the words of ExpectedMap(s), in order
ExpectedWords(s) == [n \in 1..Len(ExpectedMap(s)) |-> ExpectedMap(s)[n].first]

\* the words of records start .. end - 1, record after record
WordsOfRange(start, end) ==
    LET f[i \in start..end] ==
            IF i >= end THEN <<>>
            ELSE ExpectedWords(input_data[i + 1]) \o f[i + 1]
    IN IF start >= end THEN <<>> ELSE f[start]

IsPrefix(x, y) == Len(x) <= Len(y) /\ x = SubSeq(y, 1, Len(x))

\* C16: what a thread has appended so far is always an initial part of the
\* words of its records taken in ascending record index and, within a record,
\* in their original order; when the thread is done it is all of them.
C16_AppendOrder ==
    \A t \in Threads :
        /\ IsPrefix(appended[t], WordsOfRange(wstart[t], wend[t]))
        /\ wpc[t] = "done" => appended[t] = WordsOfRange(wstart[t], wend[t])

\* a finished thread, one of several, that appended the words of two records
C16_Witness ==
    \E t \in Threads :
        /\ num_threads >= 2
        /\ wpc[t] = "done"
        /\ wend[t] - wstart[t] >= 2
        /\ Len(appended[t]) >= 3
        /\ appended[t][1] # appended[t][Len(appended[t])]
        /\ input_data[wstart[t] + 1] # input_data[wstart[t] + 2]

\* ------------------------------------------------------------------ C17
\* nothing is in the map before the first thread is created
C17_EmptyBeforeStart == map_threads = <<>> => intermediate_result = EmptyMap

\* m2 is m1 with one element appended at the tail of the list of key k
AppendsOneTo(m1, m2, k) ==
    /\ DOMAIN m2 = DOMAIN m1 \cup {k}
    /\ IF k \in DOMAIN m1
       THEN /\ Len(m2[k]) = Len(m1[k]) + 1
            /\ SubSeq(m2[k], 1, Len(m1[k])) = m1[k]
       ELSE Len(m2[k]) = 1
    /\ \A j \in DOMAIN m1 \ {k} : m2[j] = m1[j]

C17_Step ==
    intermediate_result' # intermediate_result =>
        /\ cpc \in {"spawn", "join"}
        /\ \E t \in Threads : wpc[t] = "push" /\ wpc'[t] = "unlock"
        /\ \E k \in DOMAIN intermediate_result' :
               AppendsOneTo(intermediate_result, intermediate_result', k)

\* C17: intermediate_result is empty before any thread starts; every step
\* that changes it is a push of the map phase that appends one element at the
\* tail of one key's list, creating the key if absent, and leaves every other
\* key's list as it was; nothing is ever removed or reordered.
C17_AppendOnly == []C17_EmptyBeforeStart /\ [][C17_Step]_vars

\* the map phase is still running, one list has grown past its first
\* element and a second key has been created
C17_Witness ==
    /\ cpc = "join"
    /\ num_threads >= 2
    /\ \E t \in Threads : wpc[t] = "unlock"
    /\ \E t \in Threads : wpc[t] = "loop" /\ wi[t] = wstart[t] /\ wi[t] < wend[t]
    /\ \E k \in DOMAIN intermediate_result : Len(intermediate_result[k]) >= 2
    /\ Cardinality(DOMAIN intermediate_result) >= 2

\* ------------------------------------------------------------------ C18
BadRange(t) == wstart[t] < 0 \/ wend[t] > Len(input_data)

\* the indices whose record thread t has run through map_function, or is
\* appending the words of
Handled(t) ==
    {i \in wstart[t]..(wend[t] - 1) :
        \/ i < wi[t]
        \/ i = wi[t] /\ wpc[t] \in {"lock", "push", "unlock"}}

\* C18: a thread called with a range not inside [0, R) fails fast: it never
\* takes an index outside [0, R) as a record, appends nothing for such an
\* index and does not run to a normal end past it.
C18_FailsFast ==
    \A t \in Threads :
        BadRange(t) => \A i \in Handled(t) : InBounds(i)

\* ------------------------------------------------------------------ C19
\* how often v occurs in values
CountOf(values, v) == Cardinality({n \in 1..Len(values) : values[n] = v})

\* the sum of v times its number of occurrences, over the distinct values
RECURSIVE WeightedSum(_, _)
WeightedSum(values, distinct) ==
    IF distinct = {} THEN 0
    ELSE LET v == CHOOSE x \in distinct : TRUE
         IN v * CountOf(values, v) + WeightedSum(values, distinct \ {v})

\* the arithmetic sum of a list, as a function of its elements without order
SumOf(values) == WeightedSum(values, {values[n] : n \in 1..Len(values)})

C19_Sums ==
    /\ DOMAIN final_result \subseteq DOMAIN intermediate_result
    /\ \A k \in DOMAIN final_result :
           /\ final_result[k] = SumOf(intermediate_result[k])
           /\ intermediate_result[k] = <<>> => final_result[k] = 0
    /\ cpc \in {"report", "done"} =>
           DOMAIN final_result = DOMAIN intermediate_result

C19_Step ==
    /\ intermediate_result' = intermediate_result
    /\ final_result' # final_result =>
           \E k \in DOMAIN intermediate_result \ DOMAIN final_result :
               /\ DOMAIN final_result' = DOMAIN final_result \cup {k}
               /\ \A j \in DOMAIN final_result : final_result'[j] = final_result[j]

\* C19: reduce_function gives the arithmetic sum of its list, 0 for the empty
\* list, whatever the order of the elements; the reduce loop applies it once
\* to each key of intermediate_result, so final_result ends with the same key
\* set, and intermediate_result is not changed.
C19_ReducerSum == []C19_Sums /\ [][C19_Step]_vars

\* a finished reduction of an empty list and of a list of mixed values
C19_Witness ==
    /\ cpc = "done"
    /\ \E k \in DOMAIN final_result : intermediate_result[k] = <<>>
    /\ \E k \in DOMAIN final_result :
           /\ Len(intermediate_result[k]) = MaxListLen
           /\ Cardinality({intermediate_result[k][n] :
                              n \in 1..Len(intermediate_result[k])}) >= 2
           /\ final_result[k] # Len(intermediate_result[k])

\* ------------------------------------------------------------------ C20
\* C20: every key of intermediate_result has a non-empty list of 1s; hence
\* reduce_function is never given an empty list, and at Done every total is
\* at least 1 and equals the length of the key's list.
C20_ListsOfOnes ==
    /\ \A k \in DOMAIN intermediate_result :
           /\ intermediate_result[k] # <<>>
           /\ \A n \in 1..Len(intermediate_result[k]) :
                  intermediate_result[k][n] = 1
    /\ \A k \in DOMAIN final_result :
           /\ k \in DOMAIN intermediate_result
           /\ intermediate_result[k] # <<>>
    /\ cpc = "done" =>
           \A k \in DOMAIN intermediate_result :
               /\ final_result[k] >= 1
               /\ final_result[k] = Len(intermediate_result[k])

\* a finished run of several threads with a word counted three times and a
\* word counted once
C20_Witness ==
    /\ cpc = "done"
    /\ num_threads >= 2
    /\ \E k \in DOMAIN final_result : final_result[k] >= 3
    /\ \E k \in DOMAIN final_result : final_result[k] = 1

====
